---------------------------- MODULE Spec2Model ----------------------------
(***************************************************************************)
(* Expander performance calculator: the page script that loads the         *)
(* CoolProp module, reads the form and computes the expansion cycle.       *)
(*                                                                         *)
(* Two versions of the page script are in the repository and both are      *)
(* modelled:                                                               *)
(*   - src/unnamed/part_001 (inlet/outlet modes, three flow modes, phase   *)
(*     labels): the definitions carrying the source's names;               *)
(*   - src/js/app.js (direct P/T only, two flow modes): the definitions    *)
(*     whose names end in Js.                                              *)
(* The loader (src/unnamed/part_000) and CoolProp itself are the           *)
(* environment: the load either resolves or rejects, and PropsSI is a      *)
(* deterministic function that answers with a number or throws.            *)
(*                                                                         *)
(* JavaScript numbers are modelled as exact rationals plus NaN; rounding   *)
(* of IEEE doubles is not modelled.                                        *)
(***************************************************************************)
EXTENDS Integers, Sequences, FiniteSets, TLC

------------------------------------------------------------------------------
(* Numbers: a rational n/d in lowest terms with d > 0; d = 0 is NaN.       *)

Abs(x) == IF x < 0 THEN -x ELSE x

RECURSIVE GCD(_, _)
GCD(a, b) == IF b = 0 THEN a ELSE GCD(b, a % b)

NaN == [n |-> 0, d |-> 0]

isNaN(x) == x.d = 0

Norm(n, d) ==
    IF d = 0 THEN NaN
    ELSE LET g == GCD(Abs(n), Abs(d))
             s == IF d < 0 THEN -1 ELSE 1
         IN  [n |-> s * (n \div g), d |-> s * (d \div g)]

R(n) == [n |-> n, d |-> 1]

Frac(n, d) == Norm(n, d)

Add(x, y) == IF isNaN(x) \/ isNaN(y) THEN NaN
             ELSE Norm(x.n * y.d + y.n * x.d, x.d * y.d)

Neg(x) == IF isNaN(x) THEN NaN ELSE [n |-> -x.n, d |-> x.d]

Sub(x, y) == Add(x, Neg(y))

\* the factors are cross-reduced first so that the products stay small
Mul(x, y) ==
    IF isNaN(x) \/ isNaN(y) THEN NaN
    ELSE LET g1 == GCD(Abs(x.n), y.d)
             g2 == GCD(Abs(y.n), x.d)
             a  == IF g1 = 0 THEN 1 ELSE g1
             b  == IF g2 = 0 THEN 1 ELSE g2
         IN  Norm((x.n \div a) * (y.n \div b), (x.d \div b) * (y.d \div a))

\* x / y for y # 0 (the only divisors are literals and positive densities)
Div(x, y) ==
    IF isNaN(x) \/ isNaN(y) \/ y.n = 0 THEN NaN
    ELSE Mul(x, Norm(y.d, y.n))

\* a/b < c/d for b, d > 0, by integer parts and then the reciprocals of the
\* remainders, so that no product is formed
RECURSIVE FracLess(_, _, _, _)
FracLess(a, b, c, d) ==
    LET qa == a \div b
        qc == c \div d
        ra == a % b
        rc == c % d
    IN  IF qa # qc THEN qa < qc
        ELSE IF rc = 0 THEN FALSE
        ELSE IF ra = 0 THEN TRUE
        ELSE FracLess(d, rc, b, ra)

\* JavaScript comparisons: every comparison with NaN is false
Lt(x, y) == ~isNaN(x) /\ ~isNaN(y) /\ FracLess(x.n, x.d, y.n, y.d)
Le(x, y) == ~isNaN(x) /\ ~isNaN(y) /\ ~FracLess(y.n, y.d, x.n, x.d)
Gt(x, y) == Lt(y, x)
Ge(x, y) == Le(y, x)

Pow10(f) == CASE f = 0 -> 1 [] f = 1 -> 10 [] f = 2 -> 100 [] f = 3 -> 1000
              [] f = 4 -> 10000 [] OTHER -> 100000

------------------------------------------------------------------------------
(* Text of a cell or an output field: a literal text, or the digits that   *)
(* Number.prototype.toFixed produces (sign, magnitude in units of 10^-f).  *)

Txt(s) == [t |-> s, neg |-> FALSE, m |-> 0, f |-> 0]

\* x.toFixed(f): the nearest multiple of 10^-f, a tie going to the larger
\* magnitude; the sign of a negative x is kept even when the digits are 0
toFixed(x, f) ==
    IF isNaN(x) THEN Txt("NaN")
    ELSE [t |-> "num", neg |-> x.n < 0,
          m |-> (2 * Abs(x.n) * Pow10(f) + x.d) \div (2 * x.d), f |-> f]

------------------------------------------------------------------------------
(* Program constants                                                       *)

\* 273.15
KELVIN_OFFSET == Frac(27315, 100)

Tabs == {"orc", "steam", "gas"}

\* the CoolProp names of each category, in the order of the object literal
fluidMaps ==
    [orc   |-> <<"R245fa", "R134a", "Isobutane", "R1233ZDE", "R123">>,
     steam |-> <<"Water">>,
     gas   |-> <<"Air", "CarbonDioxide", "Methane", "Nitrogen">>]

Range(seq) == {seq[i] : i \in 1..Len(seq)}

\* the ids of the 18 table cells and of the 3 summary fields
CellIds ==
    {"val-p1", "val-t1", "val-h1", "val-s1", "val-v1", "val-x1",
     "val-p2s", "val-t2s", "val-h2s", "val-s2s", "val-v2s", "val-x2s",
     "val-p2a", "val-t2a", "val-h2a", "val-s2a", "val-v2a", "val-x2a"}

SummaryIds == {"result-power", "result-mass-flow", "result-volume-flow"}

OutputIds == CellIds \cup SummaryIds

------------------------------------------------------------------------------
(* The form.  A numeric field holds the text the user typed; parseFloat    *)
(* turns it into a number or NaN.                                          *)

\* parseFloat on the texts the model types into the fields: a decimal
\* numeral with an optional sign parses to its value, anything else to NaN
parseFloat(s) ==
    CASE s = "0"    -> R(0)
      [] s = "1"    -> R(1)
      [] s = "4"    -> R(4)
      [] s = "10"   -> R(10)
      [] s = "20"   -> R(20)
      [] s = "25"   -> R(25)
      [] s = "30"   -> R(30)
      [] s = "85"   -> R(85)
      [] s = "90"   -> R(90)
      [] s = "100"  -> R(100)
      [] s = "120"  -> R(120)
      [] s = "150"  -> R(150)
      [] s = "500"  -> R(500)
      [] s = "3000" -> R(3000)
      [] s = "-1"   -> R(-1)
      [] s = "-5"   -> R(-5)
      [] s = "42.5" -> Frac(85, 2)
      [] OTHER      -> NaN

\* the values clearForm writes
DefaultForm ==
    [inletMode |-> "pt", outletMode |-> "pressure", flowMode |-> "mass",
     inletPressure |-> "20", inletTemperature |-> "150",
     evapTemp |-> "120", superheat |-> "10",
     outletPressure |-> "4", condensingTemperature |-> "30",
     isentropicEfficiency |-> "85",
     massFlow |-> "1", displacement |-> "500", rpm |-> "3000",
     volumetricEfficiency |-> "90", volumeFlowRate |-> "100"]

------------------------------------------------------------------------------
(* State                                                                   *)

VARIABLES
    CP,                \* the module handle: "undefined" until the load resolves
    initPc,            \* initAppLogic: "awaiting" the load, "done" when the try
                       \* block completed, "caught" when the catch block ran
    oracle,            \* the loaded library's answers (fixed for a session)
    statusBar,         \* statusBar.textContent, a sequence of texts
    calculateDisabled, \* calculateButton.disabled
    currentTab,        \* the category of part_001 (app.js has no such variable)
    fluidOptions,      \* the option values of fluidSelect, in order
    fluidValue,        \* fluidSelect.value
    form,              \* the input fields and the checked radio of each group
    results,           \* the text of each cell and summary field
    calc               \* the last run of handleCalculation: its locals, the
                       \* queries it issued and the outputs it wrote

vars == <<CP, initPc, oracle, statusBar, calculateDisabled, currentTab,
          fluidOptions, fluidValue, form, results, calc>>

------------------------------------------------------------------------------
(* The property library.  PropsSI is a deterministic function of its       *)
(* arguments that returns a number or throws; the model's library answers  *)
(* by the kind of query (output and input pair) from the table in oracle.  *)

QueryKinds ==
    {"P_TQ1", "P_TQ0",
     "H_PT", "S_PT", "D_PT", "Phase_PT", "Q_PT",
     "H_PS", "T_PS", "D_PS", "Phase_PS", "Q_PS",
     "T_PH", "S_PH", "D_PH", "Phase_PH", "Q_PH"}

QueryKind(out, in1, v1, in2, v2) ==
    IF in2 = "Q" THEN (IF v2 = R(1) THEN "P_TQ1" ELSE "P_TQ0")
    ELSE out \o "_" \o in1 \o in2

\* CP.PropsSI(out, in1, v1, in2, v2, fluid)
PropsSI(out, in1, v1, in2, v2, fluid) ==
    LET k == QueryKind(out, in1, v1, in2, v2)
    IN  IF oracle.throws = k
        THEN [thrown |-> TRUE, v |-> NaN]
        ELSE [thrown |-> FALSE, v |-> oracle.a[k]]

------------------------------------------------------------------------------
(* A run of handleCalculation: what it read at the click (form content,    *)
(* category, fluid), its locals (NaN while unassigned), the pending        *)
(* exception, the queries issued so far and the outputs written.           *)

Run0 ==
    [outcome |-> "none", f |-> DefaultForm, tab |-> "orc", fluid |-> "",
     thrown |-> FALSE, message |-> <<>>, queries |-> <<>>,
     wrote |-> [i \in {} |-> Txt("")],
     p1_pa |-> NaN, t1_k |-> NaN, p2_pa |-> NaN, eta_s |-> NaN,
     h1 |-> NaN, s1 |-> NaN, v1 |-> NaN, phase1 |-> NaN, x1 |-> NaN,
     s2s |-> NaN, h2s |-> NaN, t2s_k |-> NaN, v2s |-> NaN,
     phase2s |-> NaN, x2s |-> NaN,
     h2a |-> NaN, t2a_k |-> NaN, s2a |-> NaN, v2a |-> NaN,
     phase2a |-> NaN, x2a |-> NaN,
     massFlow_kg_s |-> NaN, power_W |-> NaN,
     final_inlet_volume_flow_m3h |-> NaN]

\* throw new Error(msg)
Throw(c, msg) == [c EXCEPT !.thrown = TRUE, !.message = msg]

\* c[field] = CP.PropsSI(...), skipped when an exception is pending
Query(c, field, out, in1, v1, in2, v2, fluid) ==
    IF c.thrown THEN c
    ELSE LET r == PropsSI(out, in1, v1, in2, v2, fluid)
             q == [out |-> out, in1 |-> in1, v1 |-> v1,
                   in2 |-> in2, v2 |-> v2, fluid |-> fluid]
         IN  IF r.thrown
             THEN [c EXCEPT !.thrown = TRUE, !.queries = Append(@, q),
                            !.message = <<Txt("PropsSI failed")>>]
             ELSE [c EXCEPT ![field] = r.v, !.queries = Append(@, q)]

\* c[field] = 1.0 / c[field], skipped when an exception is pending
Reciprocal(c, field) ==
    IF c.thrown THEN c ELSE [c EXCEPT ![field] = Div(R(1), @)]

\* the quality queried whatever the phase
QueryQualityAlways(c, field, phase, in1, v1, in2, v2, fluid) ==
    IF c.thrown THEN c
    ELSE Query(c, field, "Q", in1, v1, in2, v2, fluid)

\* c[field] = (phase === 3) ? CP.PropsSI('Q', ...) : -1
QueryQuality(c, field, phase, in1, v1, in2, v2, fluid) ==
    IF c.thrown THEN c
    ELSE IF phase = R(3) THEN Query(c, field, "Q", in1, v1, in2, v2, fluid)
    ELSE [c EXCEPT ![field] = R(-1)]

------------------------------------------------------------------------------
(* Messages.  The source's texts are Chinese; the model keeps their        *)
(* content in English and keeps the numbers that are formatted into them.  *)

MsgNotReady == <<Txt("error: CoolProp has not finished loading")>>

MsgFluidMismatch(fluid, tab) ==
    <<Txt("internal state error: fluid '"), Txt(fluid),
      Txt("' does not match tab '"), Txt(tab), Txt("'")>>

MsgInletPT == <<Txt("pressure/temperature input is invalid")>>

MsgInletTsup == <<Txt("saturation temperature/superheat input is invalid")>>

MsgOutletPressure == <<Txt("outlet pressure input is invalid")>>

MsgCondTemp == <<Txt("condensing temperature input is invalid")>>

MsgEfficiency == <<Txt("isentropic efficiency must be within (0, 100]")>>

MsgPressureOrder(p2_pa, p1_pa) ==
    <<Txt("the computed outlet pressure ("),
      toFixed(Div(p2_pa, R(100000)), 2),
      Txt(" bar) must be below the inlet pressure ("),
      toFixed(Div(p1_pa, R(100000)), 2),
      Txt(" bar)")>>

MsgMassFlow == <<Txt("mass flow must be a positive number")>>

MsgDisplacementInvalid == <<Txt("displacement parameters input is invalid")>>

MsgDisplacementPositive ==
    <<Txt("displacement, speed and volumetric efficiency must be positive numbers")>>

MsgVolumeFlow == <<Txt("volume flow must be a positive number")>>

MsgDone == <<Txt("calculation finished")>>

MsgCleared == <<Txt("cleared")>>

MsgLoaded == <<Txt("CoolProp loaded (v"), Txt("version"), Txt(")")>>

MsgLoadFailed == <<Txt("error: "), Txt("CoolProp failed to load")>>

MsgVersionFailed == <<Txt("error: "), Txt("get_global_param_string failed")>>

MsgMarkup == <<Txt("loading")>>

------------------------------------------------------------------------------
(* handleCalculation of part_001, statement by statement.  Each step takes *)
(* the run so far and is skipped when an exception is pending.             *)

\* lines 209-213: the selected fluid must belong to the current tab
CheckFluid(c, tab, fluid) ==
    IF c.thrown THEN c
    ELSE IF fluid \notin Range(fluidMaps[tab])
         THEN Throw(c, MsgFluidMismatch(fluid, tab))
         ELSE c

\* lines 215-227 with the superheat left out of the inlet temperature
ResolveInletSaturated(c, tab, f, fluid) ==
    IF c.thrown THEN c
    ELSE IF tab = "gas" \/ f.inletMode = "pt"
    THEN LET c1 == [c EXCEPT
                      !.p1_pa = Mul(parseFloat(f.inletPressure), R(100000)),
                      !.t1_k = Add(parseFloat(f.inletTemperature), KELVIN_OFFSET)]
         IN  IF isNaN(c1.p1_pa) \/ isNaN(c1.t1_k)
             THEN Throw(c1, MsgInletPT) ELSE c1
    ELSE LET evap_temp_k == Add(parseFloat(f.evapTemp), KELVIN_OFFSET)
             superheat_k == parseFloat(f.superheat)
         IN  IF isNaN(evap_temp_k) \/ isNaN(superheat_k)
             THEN Throw(c, MsgInletTsup)
             ELSE LET c1 == Query(c, "p1_pa", "P", "T", evap_temp_k, "Q", R(1), fluid)
                  IN  IF c1.thrown THEN c1
                      ELSE [c1 EXCEPT !.t1_k = evap_temp_k]

\* lines 215-227: the inlet state
ResolveInlet(c, tab, f, fluid) ==
    IF c.thrown THEN c
    ELSE IF tab = "gas" \/ f.inletMode = "pt"
    THEN LET c1 == [c EXCEPT
                      !.p1_pa = Mul(parseFloat(f.inletPressure), R(100000)),
                      !.t1_k = Add(parseFloat(f.inletTemperature), KELVIN_OFFSET)]
         IN  IF isNaN(c1.p1_pa) \/ isNaN(c1.t1_k)
             THEN Throw(c1, MsgInletPT) ELSE c1
    ELSE LET evap_temp_k == Add(parseFloat(f.evapTemp), KELVIN_OFFSET)
             superheat_k == parseFloat(f.superheat)
         IN  IF isNaN(evap_temp_k) \/ isNaN(superheat_k)
             THEN Throw(c, MsgInletTsup)
             ELSE LET c1 == Query(c, "p1_pa", "P", "T", evap_temp_k, "Q", R(1), fluid)
                  IN  IF c1.thrown THEN c1
                      ELSE [c1 EXCEPT !.t1_k = Add(evap_temp_k, superheat_k)]

\* lines 229-238: the outlet pressure
ResolveOutlet(c, tab, f, fluid) ==
    IF c.thrown THEN c
    ELSE IF tab = "gas" \/ f.outletMode = "pressure"
    THEN LET c1 == [c EXCEPT
                      !.p2_pa = Mul(parseFloat(f.outletPressure), R(100000))]
         IN  IF isNaN(c1.p2_pa) THEN Throw(c1, MsgOutletPressure) ELSE c1
    ELSE LET t_cond_k == Add(parseFloat(f.condensingTemperature), KELVIN_OFFSET)
         IN  IF isNaN(t_cond_k)
             THEN Throw(c, MsgCondTemp)
             ELSE Query(c, "p2_pa", "P", "T", t_cond_k, "Q", R(0), fluid)

\* lines 240-241: the isentropic efficiency, a percentage within (0, 100]
CheckEfficiency(c, f) ==
    IF c.thrown THEN c
    ELSE LET c1 == [c EXCEPT
                      !.eta_s = Div(parseFloat(f.isentropicEfficiency), R(100))]
         IN  IF isNaN(c1.eta_s) \/ Le(c1.eta_s, R(0)) \/ Gt(c1.eta_s, R(1))
             THEN Throw(c1, MsgEfficiency) ELSE c1

\* the check of line 242 with > in place of >=: equal pressures pass
CheckPressuresStrict(c) ==
    IF c.thrown THEN c
    ELSE IF Gt(c.p2_pa, c.p1_pa)
         THEN Throw(c, MsgPressureOrder(c.p2_pa, c.p1_pa))
         ELSE c

\* line 242: an expansion needs p2 < p1
CheckPressures(c) ==
    IF c.thrown THEN c
    ELSE IF Ge(c.p2_pa, c.p1_pa)
         THEN Throw(c, MsgPressureOrder(c.p2_pa, c.p1_pa))
         ELSE c

\* lines 245-249: state 1, at (p1, t1)
InletState(c, fluid) ==
    LET c1 == Query(c,  "h1", "H", "P", c.p1_pa, "T", c.t1_k, fluid)
        c2 == Query(c1, "s1", "S", "P", c.p1_pa, "T", c.t1_k, fluid)
        c3 == Reciprocal(Query(c2, "v1", "D", "P", c.p1_pa, "T", c.t1_k, fluid), "v1")
        c4 == Query(c3, "phase1", "Phase", "P", c.p1_pa, "T", c.t1_k, fluid)
    IN  QueryQuality(c4, "x1", c4.phase1, "P", c.p1_pa, "T", c.t1_k, fluid)

\* lines 251-256: state 2s, at (p2, s1)
IsentropicOutlet(c, fluid) ==
    IF c.thrown THEN c
    ELSE LET c0 == [c EXCEPT !.s2s = c.s1]
             c1 == Query(c0, "h2s", "H", "P", c.p2_pa, "S", c0.s2s, fluid)
             c2 == Query(c1, "t2s_k", "T", "P", c.p2_pa, "S", c0.s2s, fluid)
             c3 == Reciprocal(Query(c2, "v2s", "D", "P", c.p2_pa, "S", c0.s2s, fluid), "v2s")
             c4 == Query(c3, "phase2s", "Phase", "P", c.p2_pa, "S", c0.s2s, fluid)
         IN  QueryQuality(c4, "x2s", c4.phase2s, "P", c.p2_pa, "S", c0.s2s, fluid)

\* line 258: h2a = h1 - (h1 - h2s) * eta_s
\* line 258 with the sum of the enthalpies in place of their difference
ActualEnthalpySum(h1, h2s, eta_s) == Sub(h1, Mul(Add(h1, h2s), eta_s))

\* line 258 dividing by the efficiency instead of multiplying
ActualEnthalpyDivided(h1, h2s, eta_s) == Sub(h1, Div(Sub(h1, h2s), eta_s))

ActualEnthalpy(h1, h2s, eta_s) == Sub(h1, Mul(Sub(h1, h2s), eta_s))

\* lines 258-263: state 2a, at (p2, h2a)
ActualOutlet(c, fluid) ==
    IF c.thrown THEN c
    ELSE LET c0 == [c EXCEPT !.h2a = ActualEnthalpy(c.h1, c.h2s, c.eta_s)]
             c1 == Query(c0, "t2a_k", "T", "P", c.p2_pa, "H", c0.h2a, fluid)
             c2 == Query(c1, "s2a", "S", "P", c.p2_pa, "H", c0.h2a, fluid)
             c3 == Reciprocal(Query(c2, "v2a", "D", "P", c.p2_pa, "H", c0.h2a, fluid), "v2a")
             c4 == Query(c3, "phase2a", "Phase", "P", c.p2_pa, "H", c0.h2a, fluid)
         IN  QueryQuality(c4, "x2a", c4.phase2a, "P", c.p2_pa, "H", c0.h2a, fluid)


\* lines 266-286: the mass flow, by flow mode
\* line 279 without the division of the speed by 60
DisplacementMassFlowPerMinute(Vg_cm3, rpm, eta_v, v1) ==
    Div(Mul(Mul(Div(Vg_cm3, R(1000000)), rpm), eta_v), v1)

\* line 279
DisplacementMassFlow(Vg_cm3, rpm, eta_v, v1) ==
    Div(Mul(Div(Mul(Div(Vg_cm3, R(1000000)), rpm), R(60)), eta_v), v1)

\* line 284
VolumeMassFlow(volume_flow_m3h, v1) == Div(Div(volume_flow_m3h, R(3600)), v1)

ResolveMassFlow(c, f) ==
    IF c.thrown THEN c
    ELSE CASE f.flowMode = "mass" ->
              LET c1 == [c EXCEPT !.massFlow_kg_s = parseFloat(f.massFlow)]
              IN  IF isNaN(c1.massFlow_kg_s) \/ Le(c1.massFlow_kg_s, R(0))
                  THEN Throw(c1, MsgMassFlow) ELSE c1
           [] f.flowMode = "displacement" ->
              LET Vg_cm3 == parseFloat(f.displacement)
                  rpm    == parseFloat(f.rpm)
                  eta_v  == Div(parseFloat(f.volumetricEfficiency), R(100))
              IN  IF isNaN(Vg_cm3) \/ isNaN(rpm) \/ isNaN(eta_v)
                  THEN Throw(c, MsgDisplacementInvalid)
                  ELSE IF Le(Vg_cm3, R(0)) \/ Le(rpm, R(0)) \/ Le(eta_v, R(0))
                  THEN Throw(c, MsgDisplacementPositive)
                  ELSE [c EXCEPT !.massFlow_kg_s =
                          DisplacementMassFlow(Vg_cm3, rpm, eta_v, c.v1)]
           [] f.flowMode = "volume" ->
              LET volume_flow_m3h == parseFloat(f.volumeFlowRate)
              IN  IF isNaN(volume_flow_m3h) \/ Le(volume_flow_m3h, R(0))
                  THEN Throw(c, MsgVolumeFlow)
                  ELSE [c EXCEPT !.massFlow_kg_s =
                          VolumeMassFlow(volume_flow_m3h, c.v1)]

\* lines 288-289 with the isentropic enthalpy in the power
PowerAndVolumeFlowIdeal(c) ==
    IF c.thrown THEN c
    ELSE [c EXCEPT
            !.power_W = Mul(c.massFlow_kg_s, Sub(c.h1, c.h2s)),
            !.final_inlet_volume_flow_m3h =
                Mul(Mul(c.massFlow_kg_s, c.v1), R(3600))]

\* lines 288-289
PowerAndVolumeFlow(c) ==
    IF c.thrown THEN c
    ELSE [c EXCEPT
            !.power_W = Mul(c.massFlow_kg_s, Sub(c.h1, c.h2a)),
            !.final_inlet_volume_flow_m3h =
                Mul(Mul(c.massFlow_kg_s, c.v1), R(3600))]

\* the quality tolerance of formatPhase, 1e-9
QualityTolerance == Frac(1, 1000000000)

\* lines 337-351
formatPhase(tab, phaseIndex, qualityValue) ==
    IF tab = "gas" THEN Txt("N/A")
    ELSE CASE phaseIndex = R(0) -> Txt("subcooled")
           [] phaseIndex = R(5) -> Txt("superheated")
           [] phaseIndex = R(3) ->
                IF Gt(qualityValue, Neg(QualityTolerance))
                   /\ Lt(qualityValue, QualityTolerance)
                THEN Txt("saturated liquid")
                ELSE IF Gt(qualityValue, Sub(R(1), QualityTolerance))
                        /\ Lt(qualityValue, Add(R(1), QualityTolerance))
                THEN Txt("saturated vapour")
                ELSE toFixed(qualityValue, 4)
           [] phaseIndex = R(1) -> Txt("supercritical")
           [] phaseIndex = R(2) -> Txt("supercritical gas")
           [] phaseIndex = R(4) -> Txt("supercritical liquid")
           [] OTHER -> Txt("--")

\* lines 291-316: the three summary fields, then the 18 cells
Shown(c, tab) ==
    LET p2_bar_final == Div(c.p2_pa, R(100000))
    IN          [id \in OutputIds |->
                   CASE id = "result-power" -> toFixed(Div(c.power_W, R(1000)), 2)
                     [] id = "result-mass-flow" -> toFixed(c.massFlow_kg_s, 3)
                     [] id = "result-volume-flow" ->
                          toFixed(c.final_inlet_volume_flow_m3h, 2)
                     [] id = "val-p1" -> toFixed(Div(c.p1_pa, R(100000)), 2)
                     [] id = "val-t1" -> toFixed(Sub(c.t1_k, KELVIN_OFFSET), 2)
                     [] id = "val-h1" -> toFixed(Div(c.h1, R(1000)), 2)
                     [] id = "val-s1" -> toFixed(Div(c.s1, R(1000)), 4)
                     [] id = "val-v1" -> toFixed(c.v1, 5)
                     [] id = "val-x1" -> formatPhase(tab, c.phase1, c.x1)
                     [] id = "val-p2s" -> toFixed(p2_bar_final, 2)
                     [] id = "val-t2s" -> toFixed(Sub(c.t2s_k, KELVIN_OFFSET), 2)
                     [] id = "val-h2s" -> toFixed(Div(c.h2s, R(1000)), 2)
                     [] id = "val-s2s" -> toFixed(Div(c.s2s, R(1000)), 4)
                     [] id = "val-v2s" -> toFixed(c.v2s, 5)
                     [] id = "val-x2s" -> formatPhase(tab, c.phase2s, c.x2s)
                     [] id = "val-p2a" -> toFixed(p2_bar_final, 2)
                     [] id = "val-t2a" -> toFixed(Sub(c.t2a_k, KELVIN_OFFSET), 2)
                     [] id = "val-h2a" -> toFixed(Div(c.h2a, R(1000)), 2)
                     [] id = "val-s2a" -> toFixed(Div(c.s2a, R(1000)), 4)
                     [] id = "val-v2a" -> toFixed(c.v2a, 5)
                     [] id = "val-x2a" -> formatPhase(tab, c.phase2a, c.x2a)]

\* the display moved ahead of the flow checks: a run that throws there
\* has already shown its state points
ShowResultsEarly(c, tab) ==
    IF c.thrown /\ isNaN(c.h2a) THEN c ELSE [c EXCEPT !.wrote = Shown(c, tab)]

\* lines 291-316 run only when nothing above them threw
ShowResults(c, tab) ==
    IF c.thrown THEN c ELSE [c EXCEPT !.wrote = Shown(c, tab)]

\* lines 205-317: the body of the try block
TryBlock(tab, f, fluid) ==
    LET c0 == [Run0 EXCEPT !.f = f, !.tab = tab, !.fluid = fluid]
        c1 == CheckFluid(c0, tab, fluid)
        c2 == ResolveInlet(c1, tab, f, fluid)
        c3 == ResolveOutlet(c2, tab, f, fluid)
        c4 == CheckEfficiency(c3, f)
        c5 == CheckPressures(c4)
        c6 == InletState(c5, fluid)
        c7 == IsentropicOutlet(c6, fluid)
        c8 == ActualOutlet(c7, fluid)
        c9 == ResolveMassFlow(c8, f)
        c10 == PowerAndVolumeFlow(c9)
    IN  ShowResults(c10, tab)

\* outputs that are filled in only while they still hold the placeholder
WrittenOnceOnly(c, old) ==
    [id \in OutputIds |->
        IF id \in DOMAIN c.wrote /\ old[id] \in {Txt("--"), Txt("")}
        THEN c.wrote[id] ELSE old[id]]

\* the outputs after a run: what it wrote over what was there
Written(c, old) ==
    [id \in OutputIds |-> IF id \in DOMAIN c.wrote THEN c.wrote[id] ELSE old[id]]

\* the refusal of line 201 tied to the button instead of the handle
NotLoadedByButton == calculateDisabled

\* a catch block that reports nothing: the status says finished
StatusAfterSwallowing(c) == MsgDone

\* lines 318 and 324: the status bar after the try block
StatusAfter(c) ==
    IF c.thrown THEN <<Txt("calculation error: ")>> \o c.message ELSE MsgDone

\* line 201: !CP
NotLoaded == CP = "undefined"

\* lines 200-328, for the form content f present at the click (a disabled
\* button delivers no click)
handleCalculation(f) ==
    /\ ~calculateDisabled
    /\ form' = f
    /\ IF NotLoaded
       THEN /\ statusBar' = MsgNotReady
            /\ calc' = [Run0 EXCEPT !.outcome = "refused", !.f = f,
                                    !.tab = currentTab, !.fluid = fluidValue]
            /\ UNCHANGED results
       ELSE \E c \in {TryBlock(currentTab, f, fluidValue)} :
                /\ calc' = [c EXCEPT !.outcome = IF c.thrown THEN "error" ELSE "ok"]
                /\ results' = Written(c, results)
                /\ statusBar' = StatusAfter(c)
    /\ UNCHANGED <<CP, initPc, oracle, calculateDisabled, currentTab,
                   fluidOptions, fluidValue>>


------------------------------------------------------------------------------
(* The other handlers of part_001                                          *)

\* the cells and summary fields as clearForm leaves them
Placeholders ==
    [id \in OutputIds |-> IF id \in CellIds THEN Txt("--") ELSE Txt("")]

\* a gas category that hides the mode selectors and leaves them as set
updateUIForTabHidingOnly(tab, f) == f

\* lines 126-139: the gas category has no saturation modes
updateUIForTab(tab, f) ==
    IF tab = "gas"
    THEN [f EXCEPT !.inletMode = "pt", !.outletMode = "pressure"]
    ELSE f

\* a tab click that rebuilds the options and keeps the old selection
handleTabClickKeepingFluid(tab) ==
    /\ currentTab' = tab
    /\ fluidOptions' = fluidMaps[tab]
    /\ fluidValue' = fluidValue
    /\ form' = updateUIForTab(tab, form)
    /\ UNCHANGED <<CP, initPc, oracle, statusBar, calculateDisabled, results, calc>>

\* lines 103-124: the clicked category becomes current, its fluids replace
\* the options and the first of them is selected
handleTabClick(tab) ==
    /\ currentTab' = tab
    /\ fluidOptions' = fluidMaps[tab]
    /\ fluidValue' = fluidMaps[tab][1]
    /\ form' = updateUIForTab(tab, form)
    /\ UNCHANGED <<CP, initPc, oracle, statusBar, calculateDisabled, results, calc>>

\* the user picks the i-th option of the fluid list
selectFluid(i) ==
    /\ i \in 1..Len(fluidOptions)
    /\ fluidValue' = fluidOptions[i]
    /\ UNCHANGED <<CP, initPc, oracle, statusBar, calculateDisabled, currentTab,
                   fluidOptions, form, results, calc>>

\* lines 163-195
clearForm ==
    /\ form' = updateUIForTab(currentTab, DefaultForm)
    /\ results' = Placeholders
    /\ statusBar' = MsgCleared
    /\ UNCHANGED <<CP, initPc, oracle, calculateDisabled, currentTab,
                   fluidOptions, fluidValue, calc>>

------------------------------------------------------------------------------
(* initAppLogic, lines 82-98: the continuation after await loadCoolProp()  *)

\* the load resolved and the version query returned
initAppLogicLoaded ==
    /\ initPc = "awaiting"
    /\ initPc' = "done"
    /\ CP' = "module"
    /\ statusBar' = MsgLoaded
    /\ calculateDisabled' = FALSE
    /\ UNCHANGED <<oracle, currentTab, fluidOptions, fluidValue, form, results, calc>>

\* the load resolved and CP.get_global_param_string threw: CP is assigned
\* before the query, and the catch block reports the error
initAppLogicVersionThrew ==
    /\ initPc = "awaiting"
    /\ initPc' = "caught"
    /\ CP' = "module"
    /\ statusBar' = MsgVersionFailed
    /\ UNCHANGED <<oracle, calculateDisabled, currentTab, fluidOptions,
                   fluidValue, form, results, calc>>

\* loadCoolProp rejected (part_000, lines 58-72)
initAppLogicLoadFailed ==
    /\ initPc = "awaiting"
    /\ initPc' = "caught"
    /\ statusBar' = MsgLoadFailed
    /\ UNCHANGED <<CP, oracle, calculateDisabled, currentTab, fluidOptions,
                   fluidValue, form, results, calc>>

------------------------------------------------------------------------------
(* Sessions.  A session starts when initializeApp has returned: the load   *)
(* is pending, the category is orc with its first fluid selected, and the  *)
(* form and the outputs hold what clearForm writes.  The markup decides    *)
(* whether the calculate button starts disabled.                           *)

\* how far down the fluid list the user selects
MaxOptionIndex == 2

\* the mode selectors are hidden in the gas category (updateUIForTab)
Typeable(f) ==
    currentTab = "gas" =>
        f.inletMode = form.inletMode /\ f.outletMode = form.outletMode

InitWith(libraries) ==
    /\ CP = "undefined"
    /\ initPc = "awaiting"
    /\ oracle \in libraries
    /\ statusBar = MsgMarkup
    /\ calculateDisabled \in BOOLEAN
    /\ currentTab = "orc"
    /\ fluidOptions = fluidMaps["orc"]
    /\ fluidValue = fluidMaps["orc"][1]
    /\ form = DefaultForm
    /\ results = Placeholders
    /\ calc = Run0

NextWith(inputs) ==
    \/ initAppLogicLoaded
    \/ initAppLogicVersionThrew
    \/ initAppLogicLoadFailed
    \/ \E t \in Tabs : handleTabClick(t)
    \/ \E i \in 1..MaxOptionIndex : selectFluid(i)
    \/ clearForm
    \/ \E f \in inputs : Typeable(f) /\ handleCalculation(f)

------------------------------------------------------------------------------
(* The library's answers                                                   *)

BaseAnswers ==
    [k \in QueryKinds |->
        CASE k = "P_TQ1" -> R(1500000)
          [] k = "P_TQ0" -> R(400000)
          [] k = "H_PT" -> R(430000)
          [] k = "S_PT" -> R(1700)
          [] k = "D_PT" -> R(20)
          [] k = "Phase_PT" -> R(5)
          [] k = "Q_PT" -> R(1)
          [] k = "H_PS" -> R(400000)
          [] k = "T_PS" -> R(350)
          [] k = "D_PS" -> R(5)
          [] k = "Phase_PS" -> R(3)
          [] k = "Q_PS" -> Frac(9, 10)
          [] k = "T_PH" -> R(350)
          [] k = "S_PH" -> R(1700)
          [] k = "D_PH" -> R(4)
          [] k = "Phase_PH" -> R(5)
          [] k = "Q_PH" -> Frac(1, 2)]

BaseLibrary == [throws |-> "none", a |-> BaseAnswers]

\* the library with another answer to one kind of query
Answering(k, v) == [throws |-> "none", a |-> [BaseAnswers EXCEPT ![k] = v]]

\* the library that throws on one kind of query
Throwing(k) == [throws |-> k, a |-> BaseAnswers]

------------------------------------------------------------------------------
(* Spec: sessions of part_001 in which a request passes, fails a check     *)
(* before or after the queries, or meets a library that throws.            *)

Inputs ==
    {DefaultForm,
     [DefaultForm EXCEPT !.inletMode = "tsup", !.outletMode = "tcond"],
     [DefaultForm EXCEPT !.isentropicEfficiency = "0"],
     [DefaultForm EXCEPT !.outletPressure = "25"],
     [DefaultForm EXCEPT !.massFlow = "0"],
     [DefaultForm EXCEPT !.inletPressure = "abc"]}

Libraries == {BaseLibrary, Throwing("P_TQ1"), Throwing("H_PT"), Throwing("T_PH")}

Init == InitWith(Libraries)

Next == NextWith(Inputs)

Spec == Init /\ [][Next]_vars

------------------------------------------------------------------------------
(* SpecValidation: sessions of part_001 over every combination of inlet    *)
(* and outlet mode, with efficiencies and pressures on both sides of what  *)
(* the checks accept.                                                      *)

ModeForms ==
    {[DefaultForm EXCEPT !.inletMode = i, !.outletMode = o] :
        i \in {"pt", "tsup"}, o \in {"pressure", "tcond"}}

ValidationInputs ==
    ModeForms
    \cup {[m EXCEPT !.isentropicEfficiency = "0"] : m \in ModeForms}
    \cup {[DefaultForm EXCEPT !.isentropicEfficiency = e] : e \in {"-5", "120", "abc"}}
    \cup {[DefaultForm EXCEPT !.outletPressure = p, !.isentropicEfficiency = e] :
            p \in {"20", "25"}, e \in {"85", "0"}}

ValidationLibraries == {BaseLibrary, Answering("P_TQ0", R(2000000))}

InitValidation == InitWith(ValidationLibraries)

NextValidation == NextWith(ValidationInputs)

SpecValidation == InitValidation /\ [][NextValidation]_vars

------------------------------------------------------------------------------
(* SpecCycle: sessions of part_001 over the three flow modes, efficiencies *)
(* below and at 100%, and libraries that differ in one state-point answer. *)

CycleInputs ==
    {[DefaultForm EXCEPT !.flowMode = m, !.isentropicEfficiency = e] :
        m \in {"mass", "displacement", "volume"}, e \in {"85", "100"}}

CycleLibraries ==
    {BaseLibrary, Answering("H_PS", R(430000)), Answering("H_PS", R(450000)),
     Answering("D_PT", R(50)), Answering("T_PH", R(360)), Answering("S_PH", R(1750))}

InitCycle == InitWith(CycleLibraries)

NextCycle == NextWith(CycleInputs)

SpecCycle == InitCycle /\ [][NextCycle]_vars

------------------------------------------------------------------------------
(* SpecPhase: sessions of part_001 over libraries that differ in the phase *)
(* or the quality of one state point, with qualities at, within and just   *)
(* outside the tolerance of formatPhase.                                   *)

PhaseInputs == {DefaultForm, [DefaultForm EXCEPT !.isentropicEfficiency = "100"]}

PhaseLibraries ==
    {BaseLibrary}
    \cup {Answering("Q_PS", q) :
            q \in {R(0), R(1), Frac(1, 2000000000), Frac(1, 1000000000)}}
    \cup {Answering("Phase_PT", ph) : ph \in {R(0), R(3)}}
    \cup {Answering("Phase_PH", ph) : ph \in {R(1), R(2), R(3), R(4), R(6)}}

InitPhase == InitWith(PhaseLibraries)

NextPhase == NextWith(PhaseInputs)

SpecPhase == InitPhase /\ [][NextPhase]_vars

------------------------------------------------------------------------------
(* SpecFluid: sessions of part_001 in which, besides the handlers, the try  *)
(* block is applied to every pairing of category and fluid, among them the *)
(* pairings that the handlers never leave selected and that lines 209-213  *)
(* are written against.                                                    *)

FluidInputs ==
    {DefaultForm,
     [DefaultForm EXCEPT !.inletMode = "tsup", !.outletMode = "tcond"]}

FluidLibraries == {BaseLibrary, Throwing("H_PT")}

\* the fluids within reach of the selections, over all categories
OfferedFluids ==
    UNION {{fluidMaps[t][i] : i \in 1..MaxOptionIndex \cap 1..Len(fluidMaps[t])} :
            t \in Tabs}

\* lines 205-317 as a function of category, fluid and form content
TryBlockOn(tab, fluid, f) ==
    /\ ~NotLoaded
    /\ \E c \in {TryBlock(tab, f, fluid)} :
          calc' = [c EXCEPT !.outcome = IF c.thrown THEN "error" ELSE "ok"]
    /\ UNCHANGED <<CP, initPc, oracle, statusBar, calculateDisabled, currentTab,
                   fluidOptions, fluidValue, form, results>>

InitFluid == InitWith(FluidLibraries)

NextFluid ==
    \/ NextWith(FluidInputs)
    \/ \E t \in Tabs, fl \in OfferedFluids, f \in FluidInputs : TryBlockOn(t, fl, f)

SpecFluid == InitFluid /\ [][NextFluid]_vars

------------------------------------------------------------------------------
(* The earlier page script, src/js/app.js.  It shares initAppLogic with    *)
(* part_001; it has one inlet mode, one outlet mode and two flow modes     *)
(* (mass, or displacement under the name volume), and no current category. *)

MsgNotNumbersJs == <<Txt("input invalid: check that every parameter is a number")>>

MsgPressureOrderJs ==
    <<Txt("input invalid: the outlet pressure must be below the inlet pressure")>>

MsgEfficiencyJs ==
    <<Txt("input invalid: isentropic efficiency must be within (0, 100]")>>

MsgMassFlowJs == <<Txt("mass flow input is invalid")>>

MsgVolumeJs == <<Txt("volumetric parameters input is invalid")>>

\* app.js lines 190-209: the inputs in SI units and their validation
ReadInputsJs(c, f) ==
    LET p1_bar == parseFloat(f.inletPressure)
        t1_c   == parseFloat(f.inletTemperature)
        p2_bar == parseFloat(f.outletPressure)
        c1 == [c EXCEPT
                 !.p1_pa = Mul(p1_bar, R(100000)),
                 !.t1_k = Add(t1_c, KELVIN_OFFSET),
                 !.p2_pa = Mul(p2_bar, R(100000)),
                 !.eta_s = Div(parseFloat(f.isentropicEfficiency), R(100))]
    IN  IF isNaN(c1.p1_pa) \/ isNaN(c1.t1_k) \/ isNaN(c1.p2_pa) \/ isNaN(c1.eta_s)
        THEN Throw(c1, MsgNotNumbersJs)
        ELSE IF Ge(c1.p2_pa, c1.p1_pa) THEN Throw(c1, MsgPressureOrderJs)
        ELSE IF Le(c1.eta_s, R(0)) \/ Gt(c1.eta_s, R(1))
        THEN Throw(c1, MsgEfficiencyJs)
        ELSE c1

\* app.js lines 212-216: state 1; the quality is queried whatever the phase
InletStateJs(c, fluid) ==
    LET c1 == Query(c, "h1", "H", "P", c.p1_pa, "T", c.t1_k, fluid)
        c2 == Query(c1, "s1", "S", "P", c.p1_pa, "T", c.t1_k, fluid)
        c3 == Reciprocal(Query(c2, "v1", "D", "P", c.p1_pa, "T", c.t1_k, fluid), "v1")
    IN  Query(c3, "x1", "Q", "P", c.p1_pa, "T", c.t1_k, fluid)

\* app.js lines 219-224: state 2s
IsentropicOutletJs(c, fluid) ==
    LET c0 == IF c.thrown THEN c ELSE [c EXCEPT !.s2s = c.s1]
        c1 == Query(c0, "h2s", "H", "P", c0.p2_pa, "S", c0.s2s, fluid)
        c2 == Query(c1, "t2s_k", "T", "P", c0.p2_pa, "S", c0.s2s, fluid)
        c3 == Reciprocal(Query(c2, "v2s", "D", "P", c0.p2_pa, "S", c0.s2s, fluid), "v2s")
    IN  Query(c3, "x2s", "Q", "P", c0.p2_pa, "S", c0.s2s, fluid)

\* app.js lines 227-229
ActualEnthalpyJs(h1, h2s, eta_s) ==
    LET delta_h_s == Sub(h1, h2s)
        delta_h_a == Mul(delta_h_s, eta_s)
    IN  Sub(h1, delta_h_a)

\* app.js lines 227-235: state 2a
ActualOutletJs(c, fluid) ==
    LET c0 == IF c.thrown THEN c
              ELSE [c EXCEPT !.h2a = ActualEnthalpyJs(c.h1, c.h2s, c.eta_s)]
        c1 == Query(c0, "t2a_k", "T", "P", c0.p2_pa, "H", c0.h2a, fluid)
        c2 == Query(c1, "s2a", "S", "P", c0.p2_pa, "H", c0.h2a, fluid)
        c3 == Reciprocal(Query(c2, "v2a", "D", "P", c0.p2_pa, "H", c0.h2a, fluid), "v2a")
    IN  Query(c3, "x2a", "Q", "P", c0.p2_pa, "H", c0.h2a, fluid)

\* app.js lines 238-264: mass flow, inlet volume flow (kept in m3/h) and
\* power; the flow inputs are checked for being numbers only
FlowAndPowerJs(c, f) ==
    IF c.thrown THEN c
    ELSE LET delta_h_a == Mul(Sub(c.h1, c.h2s), c.eta_s)
         IN  IF f.flowMode = "mass"
             THEN LET massFlow_kg_s == parseFloat(f.massFlow)
                  IN  IF isNaN(massFlow_kg_s) THEN Throw(c, MsgMassFlowJs)
                      ELSE [c EXCEPT
                              !.massFlow_kg_s = massFlow_kg_s,
                              !.final_inlet_volume_flow_m3h =
                                  Mul(Mul(massFlow_kg_s, c.v1), R(3600)),
                              !.power_W = Mul(massFlow_kg_s, delta_h_a)]
             ELSE LET Vg_cm3 == parseFloat(f.displacement)
                      rpm == parseFloat(f.rpm)
                      eta_v_percent == parseFloat(f.volumetricEfficiency)
                      Vg_m3 == Div(Vg_cm3, R(1000000))
                      eta_v == Div(eta_v_percent, R(100))
                      inletVolumeFlow_m3_s == Mul(Div(Mul(Vg_m3, rpm), R(60)), eta_v)
                      massFlow_kg_s == Div(inletVolumeFlow_m3_s, c.v1)
                  IN  IF isNaN(Vg_cm3) \/ isNaN(rpm) \/ isNaN(eta_v_percent)
                      THEN Throw(c, MsgVolumeJs)
                      ELSE [c EXCEPT
                              !.massFlow_kg_s = massFlow_kg_s,
                              !.final_inlet_volume_flow_m3h =
                                  Mul(inletVolumeFlow_m3_s, R(3600)),
                              !.power_W = Mul(massFlow_kg_s, delta_h_a)]

\* app.js lines 315-324
formatQuality(x) ==
    IF Gt(x, R(0)) /\ Lt(x, R(1)) THEN toFixed(x, 4)
    ELSE IF Le(x, R(0)) THEN Txt("subcooled")
    ELSE IF Ge(x, R(1)) THEN Txt("superheated")
    ELSE Txt("--")

\* app.js lines 268-291
ShownJs(c, f) ==
    LET p1_bar == parseFloat(f.inletPressure)
        t1_c   == parseFloat(f.inletTemperature)
        p2_bar == parseFloat(f.outletPressure)
    IN  [id \in OutputIds |->
           CASE id = "result-power" -> toFixed(Div(c.power_W, R(1000)), 2)
             [] id = "result-mass-flow" -> toFixed(c.massFlow_kg_s, 3)
             [] id = "result-volume-flow" -> toFixed(c.final_inlet_volume_flow_m3h, 2)
             [] id = "val-p1" -> toFixed(p1_bar, 2)
             [] id = "val-t1" -> toFixed(t1_c, 2)
             [] id = "val-h1" -> toFixed(Div(c.h1, R(1000)), 2)
             [] id = "val-s1" -> toFixed(Div(c.s1, R(1000)), 4)
             [] id = "val-v1" -> toFixed(c.v1, 5)
             [] id = "val-x1" -> formatQuality(c.x1)
             [] id = "val-p2s" -> toFixed(p2_bar, 2)
             [] id = "val-t2s" -> toFixed(Sub(c.t2s_k, KELVIN_OFFSET), 2)
             [] id = "val-h2s" -> toFixed(Div(c.h2s, R(1000)), 2)
             [] id = "val-s2s" -> toFixed(Div(c.s2s, R(1000)), 4)
             [] id = "val-v2s" -> toFixed(c.v2s, 5)
             [] id = "val-x2s" -> formatQuality(c.x2s)
             [] id = "val-p2a" -> toFixed(p2_bar, 2)
             [] id = "val-t2a" -> toFixed(Sub(c.t2a_k, KELVIN_OFFSET), 2)
             [] id = "val-h2a" -> toFixed(Div(c.h2a, R(1000)), 2)
             [] id = "val-s2a" -> toFixed(Div(c.s2a, R(1000)), 4)
             [] id = "val-v2a" -> toFixed(c.v2a, 5)
             [] id = "val-x2a" -> formatQuality(c.x2a)]

\* app.js lines 184-296: the body of the try block
TryBlockJs(f, fluid) ==
    LET c0 == [Run0 EXCEPT !.f = f, !.fluid = fluid]
        c1 == ReadInputsJs(c0, f)
        c2 == InletStateJs(c1, fluid)
        c3 == IsentropicOutletJs(c2, fluid)
        c4 == ActualOutletJs(c3, fluid)
        c5 == FlowAndPowerJs(c4, f)
    IN  IF c5.thrown THEN c5 ELSE [c5 EXCEPT !.wrote = ShownJs(c5, f)]

\* app.js lines 178-305
handleCalculationJs(f) ==
    /\ ~calculateDisabled
    /\ form' = f
    /\ IF CP = "undefined"
       THEN /\ statusBar' = MsgNotReady
            /\ calc' = [Run0 EXCEPT !.outcome = "refused", !.f = f,
                                    !.fluid = fluidValue]
            /\ UNCHANGED results
       ELSE \E c \in {TryBlockJs(f, fluidValue)} :
                /\ calc' = [c EXCEPT !.outcome = IF c.thrown THEN "error" ELSE "ok"]
                /\ results' = Written(c, results)
                /\ statusBar' = StatusAfter(c)
    /\ UNCHANGED <<CP, initPc, oracle, calculateDisabled, currentTab,
                   fluidOptions, fluidValue>>

\* app.js lines 118-135: the fluids of the clicked category replace the
\* options, the first of them selected
handleTabClickJs(tab) ==
    /\ fluidOptions' = fluidMaps[tab]
    /\ fluidValue' = fluidMaps[tab][1]
    /\ UNCHANGED <<CP, initPc, oracle, statusBar, calculateDisabled, currentTab,
                   form, results, calc>>

\* app.js lines 149-172: eight fields return to their defaults; the flow
\* mode stays as chosen
clearFormJs ==
    /\ form' = [form EXCEPT
                  !.inletPressure = "20", !.inletTemperature = "150",
                  !.outletPressure = "4", !.isentropicEfficiency = "85",
                  !.massFlow = "1", !.displacement = "500", !.rpm = "3000",
                  !.volumetricEfficiency = "90"]
    /\ results' = Placeholders
    /\ statusBar' = MsgCleared
    /\ UNCHANGED <<CP, initPc, oracle, calculateDisabled, currentTab,
                   fluidOptions, fluidValue, calc>>

\* SpecJs: sessions of app.js over requests with valid, zero and negative
\* flow inputs in both flow modes, and requests failing each check.
InputsJs ==
    {[DefaultForm EXCEPT !.flowMode = m, !.massFlow = v] :
        m \in {"mass", "volume"}, v \in {"1", "0", "-1"}}
    \cup {[DefaultForm EXCEPT !.flowMode = "volume", !.rpm = v] : v \in {"0", "-5"}}
    \cup {[DefaultForm EXCEPT !.isentropicEfficiency = "0"],
          [DefaultForm EXCEPT !.outletPressure = "25"],
          [DefaultForm EXCEPT !.massFlow = "abc"]}

LibrariesJs == {BaseLibrary, Throwing("D_PH")}

InitJs == InitWith(LibrariesJs)

NextJs ==
    \/ initAppLogicLoaded
    \/ initAppLogicVersionThrew
    \/ initAppLogicLoadFailed
    \/ \E t \in Tabs : handleTabClickJs(t)
    \/ \E i \in 1..MaxOptionIndex : selectFluid(i)
    \/ clearFormJs
    \/ \E f \in InputsJs : handleCalculationJs(f)

SpecJs == InitJs /\ [][NextJs]_vars

------------------------------------------------------------------------------
(* Properties of a request, read off the record of the last run            *)

\* the try block of the last request ran
Requested == calc.outcome \in {"ok", "error"}

\* the efficiency the form of the last request asked for, as a fraction
EfficiencyOf(run) == Div(parseFloat(run.f.isentropicEfficiency), R(100))

InUnitInterval(e) == ~isNaN(e) /\ Gt(e, R(0)) /\ Le(e, R(1))

\* both pressures of the last request resolved to numbers
PressuresResolved == ~isNaN(calc.p1_pa) /\ ~isNaN(calc.p2_pa)

\* the message shows the pressure, in bar with two decimals
NamesPressure(message, p_pa) ==
    \E i \in DOMAIN message : message[i] = toFixed(Div(p_pa, R(100000)), 2)

NoQueries == calc.queries = <<>>

NothingWritten == DOMAIN calc.wrote = {}

C2_EfficiencyRejectedBeforeQueries ==
    (Requested /\ ~isNaN(EfficiencyOf(calc)) /\ ~InUnitInterval(EfficiencyOf(calc))) =>
        /\ calc.outcome = "error"
        /\ NoQueries

\* C3: while loadCoolProp has not resolved, the handle CP is unset, no
\* request has issued a PropsSI query or written an output, and a request
\* made then left the not-ready message in the status bar (until clearForm
\* or the failed load replaced it).
C3_NoQueryBeforeLoad ==
    CP = "undefined" =>
        /\ calc.outcome \in {"none", "refused"}
        /\ NoQueries
        /\ NothingWritten
        /\ (calc.outcome = "refused" /\ statusBar \notin {MsgCleared, MsgLoadFailed})
              => statusBar = MsgNotReady

\* a request made while the load was pending was refused
C3_RefusedWhileLoading ==
    /\ initPc = "awaiting"
    /\ calc.outcome = "refused"
    /\ statusBar = MsgNotReady
    /\ NoQueries

\* C4: every step leaves the outputs as they were, or is clearForm putting
\* the placeholders everywhere, or is a successful request writing all
\* eighteen cells and three summary fields; a failing request changes none.
C4_AllOrNothing ==
    [][\/ results' = results
       \/ results' = Placeholders /\ statusBar' = MsgCleared
       \/ /\ calc'.outcome = "ok"
          /\ DOMAIN calc'.wrote = OutputIds
          /\ results' = calc'.wrote]_vars

\* a request failed after all its queries, over the results of an earlier
\* success
C4_LateFailureKeepsResults ==
    /\ calc.outcome = "error"
    /\ Len(calc.queries) >= 12
    /\ NothingWritten
    /\ results # Placeholders

\* C10 as stated: once initialization has ended in its failure branch,
\* every request is refused and issues no PropsSI query, whether the load
\* or the version query raised the failure.
C10_InitFailureIsTerminal ==
    initPc = "caught" =>
        /\ calc.outcome \in {"none", "refused"}
        /\ NoQueries

\* the enthalpy at which the last request queried the actual outlet state
QueriedActualEnthalpy ==
    LET at == {i \in DOMAIN calc.queries : calc.queries[i].in2 = "H"}
    IN  IF at = {} THEN NaN ELSE calc.queries[CHOOSE i \in at : TRUE].v2

\* the last request issued this query
Queried(out, in1, v1, in2, v2) ==
    \E i \in DOMAIN calc.queries :
        calc.queries[i] = [out |-> out, in1 |-> in1, v1 |-> v1,
                           in2 |-> in2, v2 |-> v2, fluid |-> calc.fluid]

\* C5: the power of a successful request is its mass flow times (H1 - H2a),
\* H1 being the library's inlet enthalpy and H2a the enthalpy at which the
\* actual outlet was queried, whatever the flow mode; result-power shows it
\* in kW with two decimals.
C5_Power ==
    calc.outcome = "ok" =>
        LET drop == Sub(oracle.a["H_PT"], QueriedActualEnthalpy)
            power == Mul(calc.massFlow_kg_s, drop)
        IN  /\ calc.power_W = power
            /\ calc.wrote["result-power"] = toFixed(Div(power, R(1000)), 2)
            /\ calc.wrote["result-mass-flow"] = toFixed(calc.massFlow_kg_s, 3)

\* a request with a derived mass flow reported a positive power
C5_DerivedFlowPower ==
    /\ calc.outcome = "ok"
    /\ calc.f.flowMode = "displacement"
    /\ Gt(calc.power_W, R(0))
    /\ calc.massFlow_kg_s # parseFloat(calc.f.massFlow)

\* C6: with v1 the reciprocal of the density the library returns at
\* (P1, T1), a successful request has mass flow = the mass-flow field in
\* mass mode, (displacement/1e6 * rpm/60 * volumetric efficiency/100) / v1
\* in displacement mode, and (volume flow/3600) / v1 in volume mode.
C6_MassFlow ==
    calc.outcome = "ok" =>
        LET v1 == Div(R(1), oracle.a["D_PT"])
            f == calc.f
        IN  /\ Queried("D", "P", calc.p1_pa, "T", calc.t1_k)
            /\ calc.v1 = v1
            /\ f.flowMode = "mass" =>
                  calc.massFlow_kg_s = parseFloat(f.massFlow)
            /\ f.flowMode = "displacement" =>
                  calc.massFlow_kg_s =
                      Div(Mul(Mul(Mul(parseFloat(f.displacement), Frac(1, 1000000)),
                                  Div(parseFloat(f.rpm), R(60))),
                              Div(parseFloat(f.volumetricEfficiency), R(100))),
                          v1)
            /\ f.flowMode = "volume" =>
                  calc.massFlow_kg_s = Div(Div(parseFloat(f.volumeFlowRate), R(3600)), v1)

\* 500 cm3 at 3000 rpm and 90% gave 0.0225 / v1
C6_DisplacementScenario ==
    /\ calc.outcome = "ok"
    /\ calc.f.flowMode = "displacement"
    /\ calc.f.displacement = "500" /\ calc.f.rpm = "3000"
    /\ calc.f.volumetricEfficiency = "90"
    /\ calc.massFlow_kg_s = Mul(Frac(9, 400), oracle.a["D_PT"])

\* C7 as stated: at an efficiency of 100% a successful request has
\* H2a = H2s, T2a = T2s and S2a = S1.
C7_UnitEfficiencyRoundTrip ==
    (calc.outcome = "ok" /\ EfficiencyOf(calc) = R(1)) =>
        /\ calc.h2a = calc.h2s
        /\ calc.t2a_k = calc.t2s_k
        /\ calc.s2a = calc.s1

\* C7, amended: at an efficiency of 100% a successful request has H2a = H2s
\* and shows the same enthalpy twice; T2a and S2a are what the library
\* answers at (P2, H2s), so they equal T2s and S1 when the library's (P, H)
\* answers agree with its (P, S) and (P, T) answers.
C7_UnitEfficiencyEnthalpy ==
    (calc.outcome = "ok" /\ EfficiencyOf(calc) = R(1)) =>
        /\ calc.h2s = oracle.a["H_PS"]
        /\ calc.h2a = calc.h2s
        /\ calc.wrote["val-h2a"] = calc.wrote["val-h2s"]
        /\ Queried("T", "P", calc.p2_pa, "H", calc.h2s)
        /\ Queried("S", "P", calc.p2_pa, "H", calc.h2s)
        /\ calc.t2a_k = oracle.a["T_PH"]
        /\ calc.s2a = oracle.a["S_PH"]
        /\ oracle.a["T_PH"] = oracle.a["T_PS"] => calc.t2a_k = calc.t2s_k
        /\ oracle.a["S_PH"] = oracle.a["S_PT"] => calc.s2a = calc.s1

\* a request at 100% ended with T2a different from T2s
C7_UnitEfficiencyDone ==
    /\ calc.outcome = "ok"
    /\ EfficiencyOf(calc) = R(1)
    /\ calc.h2a = calc.h2s
    /\ calc.t2a_k # calc.t2s_k

\* C8 as stated: for every successful request the isentropic drop H1 - H2s
\* is at least the actual drop H1 - H2a, with equality only at 100%.
C8_IsentropicDropDominates ==
    calc.outcome = "ok" =>
        LET ideal == Sub(calc.h1, calc.h2s)
            actual == Sub(calc.h1, calc.h2a)
        IN  /\ Ge(ideal, actual)
            /\ ideal = actual => EfficiencyOf(calc) = R(1)

\* C8, amended: the actual drop is the efficiency times the isentropic
\* drop; when the isentropic drop is positive it is at least the actual
\* drop, with equality only at 100%; when it is zero both are zero, and
\* when it is negative the actual drop is not below it.
C8_DropsByEfficiency ==
    calc.outcome = "ok" =>
        LET ideal == Sub(oracle.a["H_PT"], oracle.a["H_PS"])
            actual == Sub(oracle.a["H_PT"], QueriedActualEnthalpy)
        IN  /\ actual = Mul(EfficiencyOf(calc), ideal)
            /\ Gt(ideal, R(0)) =>
                  /\ Ge(ideal, actual)
                  /\ ideal = actual => EfficiencyOf(calc) = R(1)
            /\ ideal = R(0) => actual = R(0)
            /\ Lt(ideal, R(0)) => Le(ideal, actual)

\* a request below 100% had a positive isentropic drop, strictly above
\* its actual drop
C8_StrictBelowUnit ==
    /\ calc.outcome = "ok"
    /\ Lt(EfficiencyOf(calc), R(1))
    /\ Gt(Sub(calc.h1, calc.h2s), R(0))
    /\ Gt(Sub(calc.h1, calc.h2s), Sub(calc.h1, calc.h2a))

\* the flow inputs app.js reads in the selected mode, as numbers
FlowInputsJs(f) ==
    IF f.flowMode = "mass" THEN {parseFloat(f.massFlow)}
    ELSE {parseFloat(f.displacement), parseFloat(f.rpm),
          parseFloat(f.volumetricEfficiency)}

\* C9 as stated, for app.js: a request with a zero or negative flow input
\* in the selected flow mode fails and produces no result.
C9_NonPositiveFlowRejected ==
    (Requested /\ \E x \in FlowInputsJs(calc.f) : Le(x, R(0))) =>
        /\ calc.outcome = "error"
        /\ NothingWritten

\* the outputs of the queries the last request made at (pressure,
\* temperature)
InletOutputs == {q.out : q \in {r \in Range(calc.queries) : r.in2 = "T"}}

\* C11: a successful request has, in direct mode, P1 = entered pressure in
\* Pa and T1 = entered temperature in K; in saturation mode, P1 = the
\* library's answer to its first query, the pressure at the saturation
\* temperature and quality 1, and T1 = saturation temperature + superheat;
\* every query by pressure and temperature is at exactly (P1, T1), and H,
\* S, density and phase are among them.
C11_InletResolution ==
    calc.outcome = "ok" =>
        LET f == calc.f
            direct == calc.tab = "gas" \/ f.inletMode = "pt"
            evap_k == Add(parseFloat(f.evapTemp), KELVIN_OFFSET)
            P1 == IF direct THEN Mul(parseFloat(f.inletPressure), R(100000))
                  ELSE oracle.a["P_TQ1"]
            T1 == IF direct THEN Add(parseFloat(f.inletTemperature), KELVIN_OFFSET)
                  ELSE Add(evap_k, parseFloat(f.superheat))
        IN  /\ calc.p1_pa = P1
            /\ calc.t1_k = T1
            /\ direct => ~\E i \in DOMAIN calc.queries :
                            /\ calc.queries[i].in2 = "Q"
                            /\ calc.queries[i].v2 = R(1)
            /\ ~direct => calc.queries[1] =
                            [out |-> "P", in1 |-> "T", v1 |-> evap_k,
                             in2 |-> "Q", v2 |-> R(1), fluid |-> calc.fluid]
            /\ \A i \in DOMAIN calc.queries :
                  calc.queries[i].in2 = "T" =>
                      /\ calc.queries[i].in1 = "P"
                      /\ calc.queries[i].v1 = P1
                      /\ calc.queries[i].v2 = T1
            /\ {"H", "S", "D", "Phase"} \subseteq InletOutputs
            /\ calc.wrote["val-p1"] = toFixed(Div(P1, R(100000)), 2)
            /\ calc.wrote["val-t1"] = toFixed(Sub(T1, KELVIN_OFFSET), 2)

\* a request in saturation mode succeeded with an inlet pressure that is
\* not the entered one
C11_SaturationInlet ==
    /\ calc.outcome = "ok"
    /\ calc.f.inletMode = "tsup"
    /\ calc.p1_pa = oracle.a["P_TQ1"]
    /\ calc.p1_pa # Mul(parseFloat(calc.f.inletPressure), R(100000))
    /\ calc.t1_k = Add(Add(R(120), KELVIN_OFFSET), R(10))

\* the three state points: the input that tells their queries apart, the
\* locals holding phase and quality, and the cell showing them
StatePoints ==
    {[by |-> "T", phase |-> "phase1", x |-> "x1", cell |-> "val-x1"],
     [by |-> "S", phase |-> "phase2s", x |-> "x2s", cell |-> "val-x2s"],
     [by |-> "H", phase |-> "phase2a", x |-> "x2a", cell |-> "val-x2a"]}

\* what the library answers for the phase and the quality of a state point
PhaseAnswer(pt) == oracle.a["Phase_P" \o pt.by]

QualityAnswer(pt) == oracle.a["Q_P" \o pt.by]

QualityQueried(pt) ==
    \E i \in DOMAIN calc.queries :
        calc.queries[i].out = "Q" /\ calc.queries[i].in2 = pt.by

NearZero(q) == Gt(q, Neg(Frac(1, 1000000000))) /\ Lt(q, Frac(1, 1000000000))

NearOne(q) ==
    /\ Gt(q, Sub(R(1), Frac(1, 1000000000)))
    /\ Lt(q, Add(R(1), Frac(1, 1000000000)))

\* what holds of the quality in every category: it is queried exactly when
\* the phase is 3, held as -1 otherwise, and a number is shown only for a
\* two-phase point
QualityOnlyInTwoPhase(pt) ==
    /\ calc[pt.phase] = PhaseAnswer(pt)
    /\ PhaseAnswer(pt) # R(3) =>
          /\ ~QualityQueried(pt)
          /\ calc[pt.x] = R(-1)
    /\ PhaseAnswer(pt) = R(3) =>
          /\ QualityQueried(pt)
          /\ calc[pt.x] = QualityAnswer(pt)
    /\ calc.wrote[pt.cell].t = "num" =>
          /\ PhaseAnswer(pt) = R(3)
          /\ calc.wrote[pt.cell] = toFixed(QualityAnswer(pt), 4)

SaturationLabelled(pt) ==
    PhaseAnswer(pt) = R(3) =>
        /\ NearZero(QualityAnswer(pt)) =>
              calc.wrote[pt.cell] = Txt("saturated liquid")
        /\ NearOne(QualityAnswer(pt)) =>
              calc.wrote[pt.cell] = Txt("saturated vapour")

\* C12 as stated: for each state point of a successful request the quality
\* is queried and shown as a number only in two-phase, is -1 otherwise, and
\* a two-phase quality within the tolerance of 0 or 1 is shown as the
\* saturated-liquid or saturated-vapour label.
C12_QualityDisplay ==
    calc.outcome = "ok" =>
        \A pt \in StatePoints : QualityOnlyInTwoPhase(pt) /\ SaturationLabelled(pt)

\* C12, amended: the same, the saturation labels being shown in the orc and
\* steam categories; in the gas category the cell shows N/A whatever the
\* phase and the quality.
C12_QualityDisplayByCategory ==
    calc.outcome = "ok" =>
        \A pt \in StatePoints :
            /\ QualityOnlyInTwoPhase(pt)
            /\ calc.tab # "gas" => SaturationLabelled(pt)
            /\ calc.tab = "gas" => calc.wrote[pt.cell] = Txt("N/A")

\* outside the gas category a two-phase quality within the tolerance of 0,
\* but not 0, was shown as saturated liquid
C12_NearZeroLabelled ==
    /\ calc.outcome = "ok"
    /\ calc.tab # "gas"
    /\ calc.phase2s = R(3)
    /\ calc.x2s = Frac(1, 2000000000)
    /\ calc.wrote["val-x2s"] = Txt("saturated liquid")

\* Whether a request is one part_001 should carry out, read off the form,
\* the category and the library alone: the fields of the selected modes
\* are numbers, the efficiency is within (0, 1], the outlet pressure is
\* below the inlet pressure, the flow inputs are positive, and the library
\* throws on none of the queries the request needs.
DirectInlet(run) == run.tab = "gas" \/ run.f.inletMode = "pt"

DirectOutlet(run) == run.tab = "gas" \/ run.f.outletMode = "pressure"

ExpectedP1(run) ==
    IF DirectInlet(run) THEN Mul(parseFloat(run.f.inletPressure), R(100000))
    ELSE oracle.a["P_TQ1"]

ExpectedP2(run) ==
    IF DirectOutlet(run) THEN Mul(parseFloat(run.f.outletPressure), R(100000))
    ELSE oracle.a["P_TQ0"]

FieldsRead(run) ==
    LET f == run.f
    IN  (IF DirectInlet(run) THEN {f.inletPressure, f.inletTemperature}
         ELSE {f.evapTemp, f.superheat})
        \cup (IF DirectOutlet(run) THEN {f.outletPressure}
              ELSE {f.condensingTemperature})
        \cup {f.isentropicEfficiency}
        \cup (CASE f.flowMode = "mass" -> {f.massFlow}
                [] f.flowMode = "displacement" ->
                     {f.displacement, f.rpm, f.volumetricEfficiency}
                [] f.flowMode = "volume" -> {f.volumeFlowRate})

FlowFields(f) ==
    CASE f.flowMode = "mass" -> {f.massFlow}
      [] f.flowMode = "displacement" ->
           {f.displacement, f.rpm, f.volumetricEfficiency}
      [] f.flowMode = "volume" -> {f.volumeFlowRate}

KindsNeeded(run) ==
    (IF DirectInlet(run) THEN {} ELSE {"P_TQ1"})
    \cup (IF DirectOutlet(run) THEN {} ELSE {"P_TQ0"})
    \cup {o \o "_P" \o by : o \in {"H", "S", "D", "Phase", "T"}, by \in {"T", "S", "H"}}
    \cup {"Q_P" \o by : by \in {b \in {"T", "S", "H"} : oracle.a["Phase_P" \o b] = R(3)}}

Acceptable(run) ==
    /\ \A s \in FieldsRead(run) : ~isNaN(parseFloat(s))
    /\ InUnitInterval(EfficiencyOf(run))
    /\ Lt(ExpectedP2(run), ExpectedP1(run))
    /\ \A s \in FlowFields(run.f) : Gt(parseFloat(s), R(0))
    /\ oracle.throws \notin KindsNeeded(run)

\* C13: every request ends in success or in a caught failure (the handler
\* is a total step whose try block covers every throw); a failure leaves
\* a non-empty message that the status bar shows after "calculation error"
\* (until clearForm replaces it) and writes nothing; and whether a request
\* succeeds depends on that request alone, so a request with valid inputs
\* succeeds whatever failed before it.
C13_FailuresCaught ==
    /\ Requested => (calc.outcome = "ok" <=> Acceptable(calc))
    /\ calc.outcome = "error" =>
          /\ calc.message # <<>>
          /\ NothingWritten
          /\ statusBar \in {<<Txt("calculation error: ")>> \o calc.message, MsgCleared}
    /\ calc.outcome = "ok" => statusBar \in {MsgDone, MsgCleared}

\* a failure of the library, after the results of an earlier success, is
\* shown in the status bar
C13_LibraryFailureShown ==
    /\ calc.outcome = "error"
    /\ oracle.throws # "none"
    /\ calc.message = <<Txt("PropsSI failed")>>
    /\ statusBar = <<Txt("calculation error: "), Txt("PropsSI failed")>>
    /\ results # Placeholders

\* what a successful request displays, from the form content, the category,
\* the fluid and the library alone
DisplayFor(f, tab, fluid) == TryBlock(tab, f, fluid).wrote

C15_FluidOfCategory ==
    /\ [](/\ fluidOptions = fluidMaps[currentTab]
          /\ fluidValue \in Range(fluidMaps[currentTab])
          /\ (Requested /\ calc.fluid \notin Range(fluidMaps[calc.tab])) =>
                /\ calc.outcome = "error"
                /\ calc.message = MsgFluidMismatch(calc.fluid, calc.tab)
                /\ NoQueries
                /\ NothingWritten)
    /\ [][\A t \in Tabs :
             handleTabClick(t) =>
                 (currentTab' = t /\ fluidValue' = fluidMaps[t][1])]_vars

\* water requested in the gas category and rejected, in a session whose
\* steam tab has water selected
C15_MismatchRejected ==
    /\ calc.outcome = "error"
    /\ calc.tab = "gas"
    /\ calc.fluid = "Water"
    /\ NoQueries
    /\ currentTab = "steam"
    /\ fluidValue = "Water"

\* the saturation lookups of a run: pressure at a temperature and a quality
SaturationLookups == {q \in Range(calc.queries) : q.in2 = "Q"}

\* C16: while the current category is gas the form's inlet mode is direct
\* P/T and its outlet mode direct pressure; and a run in the gas category,
\* whatever modes its form content carries, makes no saturation lookup,
\* takes the three entered values as P1, T1 and P2 when it gets that far,
\* and on success shows "N/A" in the three phase cells.
C16_GasIsDirect ==
    /\ currentTab = "gas" =>
          form.inletMode = "pt" /\ form.outletMode = "pressure"
    /\ (Requested /\ calc.tab = "gas") =>
          /\ SaturationLookups = {}
          /\ calc.queries # <<>> =>
                /\ calc.p1_pa = Mul(parseFloat(calc.f.inletPressure), R(100000))
                /\ calc.t1_k = Add(parseFloat(calc.f.inletTemperature), KELVIN_OFFSET)
                /\ calc.p2_pa = Mul(parseFloat(calc.f.outletPressure), R(100000))
                /\ \A i \in 1..Len(calc.queries) : calc.queries[i].in1 = "P"
          /\ calc.outcome = "ok" =>
                \A id \in {"val-x1", "val-x2s", "val-x2a"} :
                    calc.wrote[id] = Txt("N/A")

\* a gas run whose form content selects the saturation modes, finished on
\* the entered pressures, with a two-phase answer for the isentropic outlet
C16_GasIgnoresModes ==
    /\ calc.outcome = "ok"
    /\ calc.tab = "gas"
    /\ calc.fluid = "Air"
    /\ calc.f.inletMode = "tsup"
    /\ calc.f.outletMode = "tcond"
    /\ calc.p1_pa = R(2000000)
    /\ oracle.a["Phase_PS"] = R(3)
    /\ calc.wrote["val-x2s"] = Txt("N/A")
    /\ currentTab = "gas"

\* what a clear is to leave behind and to leave alone: the twelve numeric
\* inputs and the three modes at their defaults, the outputs blank, and the
\* module handle, the library, the category, the selection and the record
\* of queries as they were
ClearedForm ==
    /\ form' = DefaultForm
    /\ results' = Placeholders
    /\ \A id \in SummaryIds : results'[id] = Txt("")
    /\ \A id \in CellIds : results'[id] = Txt("--")
    /\ UNCHANGED <<CP, oracle, currentTab, fluidValue, calc>>

\* C17 for part_001: every step of clearForm, the module loaded or not,
\* leaves the form and the outputs cleared and the rest alone.
C17_ClearFormRestores == [][clearForm => ClearedForm]_vars

\* C17 as stated, for app.js: every step of its clearForm leaves the form
\* and the outputs cleared and the rest alone.
C17_ClearFormRestoresJs == [][clearFormJs => ClearedForm]_vars

==============================================================================
